---- MODULE Spec2Model ----
(***************************************************************************)
(* A model of Tools.deepsearch (src/DeepSearch.py): the request builder,   *)
(* the HTTP response handling, the streaming normalizer and the text       *)
(* extraction helper.                                                      *)
(*                                                                         *)
(* Python strings are modelled as sequences of non-empty pieces ("atoms"), *)
(* so that the empty string is <<>> and concatenation is \o.  Bytes on the *)
(* wire are modelled as sequences of lexemes (tokens): string literals,    *)
(* numbers, punctuation, words, blanks, line breaks and undecodable bytes. *)
(* A JSON value is a record [t, s, kv]: t is the type tag, s the text of a *)
(* string or number, kv the ordered members of an object (or the elements  *)
(* of an array, with k = "").                                              *)
(***************************************************************************)
EXTENDS Integers, Sequences, FiniteSets, TLC

\* ------------------------------------------------------------------ bounds
MaxChunks == 2

\* ------------------------------------------------------------- text, tokens
Str(x) == [k |-> "str", s |-> x]
Num(x) == [k |-> "num", s |-> x]
Pn(x) == [k |-> "punct", s |-> x]
Word(x) == [k |-> "word", s |-> x]
Lit(x) == [k |-> "lit", s |-> x]
Ws == [k |-> "ws", s |-> " "]
NL == [k |-> "nl", s |-> "\n"]
Bad == [k |-> "bad", s |-> "?"]

Atom(x) == IF x = "" THEN <<>> ELSE <<x>>

\* The characters a lexeme stands for.
TokText(t) == IF t.k = "str" THEN <<"\"">> \o Atom(t.s) \o <<"\"">> ELSE <<t.s>>

RECURSIVE TextOf(_)
TextOf(toks) ==
  IF toks = <<>> THEN <<>> ELSE TokText(Head(toks)) \o TextOf(Tail(toks))

RECURSIVE Flatten(_)
Flatten(ss) == IF ss = <<>> THEN <<>> ELSE Head(ss) \o Flatten(Tail(ss))

\* str(n) for a non-negative integer.
Digits == <<"0", "1", "2", "3", "4", "5", "6", "7", "8", "9">>
RECURSIVE Dec(_)
Dec(n) == IF n < 10 THEN <<Digits[n + 1]>> ELSE Dec(n \div 10) \o <<Digits[(n % 10) + 1]>>

\* bytes.decode(errors="ignore"): undecodable bytes are dropped.
Decode(chunk) == SelectSeq(chunk, LAMBDA t : t.k # "bad")

\* str.splitlines(): split at line breaks, no trailing empty line.
RECURSIVE SplitFrom(_, _)
SplitFrom(toks, cur) ==
  IF toks = <<>> THEN (IF cur = <<>> THEN <<>> ELSE <<cur>>)
  ELSE IF Head(toks).k = "nl" THEN <<cur>> \o SplitFrom(Tail(toks), <<>>)
  ELSE SplitFrom(Tail(toks), Append(cur, Head(toks)))

SplitLines(toks) == SplitFrom(toks, <<>>)

\* str.strip(): leading and trailing blanks removed.
RECURSIVE LStrip(_)
LStrip(toks) ==
  IF toks # <<>> /\ Head(toks).k \in {"ws", "nl"} THEN LStrip(Tail(toks)) ELSE toks

RECURSIVE RStrip(_)
RStrip(toks) ==
  IF toks # <<>> /\ toks[Len(toks)].k \in {"ws", "nl"}
  THEN RStrip(SubSeq(toks, 1, Len(toks) - 1)) ELSE toks

Strip(toks) == RStrip(LStrip(toks))

\* ------------------------------------------------------------ JSON values
JStr(txt) == [t |-> "str", s |-> txt, kv |-> <<>>]
JNum(txt) == [t |-> "num", s |-> txt, kv |-> <<>>]
JNull == [t |-> "null", s |-> <<>>, kv |-> <<>>]
JBool(b) == [t |-> "bool", s |-> IF b THEN <<"true">> ELSE <<"false">>, kv |-> <<>>]
JObj(members) == [t |-> "obj", s |-> <<>>, kv |-> members]
JArr(elems) == [t |-> "arr", s |-> <<>>, kv |-> elems]
Member(key, val) == [k |-> key, v |-> val]

IsStr(v) == v.t = "str"
IsDict(v) == v.t = "obj"
IsList(v) == v.t = "arr"
Has(o, key) == \E i \in 1..Len(o.kv) : o.kv[i].k = key
Get(o, key) == o.kv[CHOOSE i \in 1..Len(o.kv) : o.kv[i].k = key].v

\* dict[key] = val: a repeated key keeps its place and takes the last value.
DictSet(members, key, val) ==
  IF \E i \in 1..Len(members) : members[i].k = key
  THEN [i \in 1..Len(members) |->
          IF members[i].k = key THEN Member(key, val) ELSE members[i]]
  ELSE Append(members, Member(key, val))

\* Python truthiness of a value.
Truthy(v) ==
  CASE v.t = "str" -> v.s # <<>>
    [] v.t = "num" -> v.s # <<"0">>
    [] v.t = "null" -> FALSE
    [] v.t = "bool" -> v.s = <<"true">>
    [] OTHER -> v.kv # <<>>

\* json.loads on the lexemes of a line (blanks between lexemes are skipped).
ParseFail == [ok |-> FALSE, v |-> JNull, n |-> 0]
ParseOk(val, next) == [ok |-> TRUE, v |-> val, n |-> next]

RECURSIVE ParseValue(_, _)
RECURSIVE ParseMembers(_, _, _)
RECURSIVE ParseElements(_, _, _)
ParseValue(t, i) ==
  IF i > Len(t) THEN ParseFail
  ELSE CASE t[i].k = "str" -> ParseOk(JStr(Atom(t[i].s)), i + 1)
         [] t[i].k = "num" -> ParseOk(JNum(Atom(t[i].s)), i + 1)
         [] t[i] = Lit("null") -> ParseOk(JNull, i + 1)
         [] t[i] = Lit("true") -> ParseOk(JBool(TRUE), i + 1)
         [] t[i] = Lit("false") -> ParseOk(JBool(FALSE), i + 1)
         [] t[i] = Pn("{") ->
              IF i + 1 <= Len(t) /\ t[i + 1] = Pn("}")
              THEN ParseOk(JObj(<<>>), i + 2)
              ELSE ParseMembers(t, i + 1, <<>>)
         [] t[i] = Pn("[") ->
              IF i + 1 <= Len(t) /\ t[i + 1] = Pn("]")
              THEN ParseOk(JArr(<<>>), i + 2)
              ELSE ParseElements(t, i + 1, <<>>)
         [] OTHER -> ParseFail

ParseMembers(t, i, acc) ==
  IF i + 1 > Len(t) \/ t[i].k # "str" \/ t[i + 1] # Pn(":") THEN ParseFail
  ELSE LET r == ParseValue(t, i + 2)
           acc2 == DictSet(acc, t[i].s, r.v)
       IN IF ~r.ok \/ r.n > Len(t) THEN ParseFail
          ELSE IF t[r.n] = Pn(",") THEN ParseMembers(t, r.n + 1, acc2)
          ELSE IF t[r.n] = Pn("}") THEN ParseOk(JObj(acc2), r.n + 1)
          ELSE ParseFail

ParseElements(t, i, acc) ==
  LET r == ParseValue(t, i)
      acc2 == Append(acc, Member("", r.v))
  IN IF ~r.ok \/ r.n > Len(t) THEN ParseFail
     ELSE IF t[r.n] = Pn(",") THEN ParseElements(t, r.n + 1, acc2)
     ELSE IF t[r.n] = Pn("]") THEN ParseOk(JArr(acc2), r.n + 1)
     ELSE ParseFail

json_loads(line) ==
  LET t == SelectSeq(line, LAMBDA x : x.k \notin {"ws", "nl"})
      r == ParseValue(t, 1)
  IN IF r.ok /\ r.n = Len(t) + 1 THEN [ok |-> TRUE, v |-> r.v]
     ELSE [ok |-> FALSE, v |-> JNull]

\* json.dumps(v): the default separators ", " and ": ".
RECURSIVE json_dumps(_)
RECURSIVE DumpItems(_, _)
DumpItems(members, keyed) ==
  IF members = <<>> THEN <<>>
  ELSE (IF keyed THEN <<"\"">> \o Atom(Head(members).k) \o <<"\": ">> ELSE <<>>)
       \o json_dumps(Head(members).v)
       \o (IF Len(members) > 1 THEN <<", ">> ELSE <<>>)
       \o DumpItems(Tail(members), keyed)

json_dumps(v) ==
  CASE v.t = "str" -> <<"\"">> \o v.s \o <<"\"">>
    [] v.t \in {"num", "bool"} -> v.s
    [] v.t = "null" -> <<"null">>
    [] v.t = "obj" -> <<"{">> \o DumpItems(v.kv, TRUE) \o <<"}">>
    [] OTHER -> <<"[">> \o DumpItems(v.kv, FALSE) \o <<"]">>

\* json.dumps(v, indent=2): one item per line, two blanks per level.
RECURSIVE Indent(_)
Indent(d) == IF d = 0 THEN <<>> ELSE <<"  ">> \o Indent(d - 1)

RECURSIVE json_dumps_indent(_, _)
RECURSIVE PrettyItems(_, _, _)
PrettyItems(members, keyed, d) ==
  IF members = <<>> THEN <<>>
  ELSE <<"\n">> \o Indent(d)
       \o (IF keyed THEN <<"\"">> \o Atom(Head(members).k) \o <<"\": ">> ELSE <<>>)
       \o json_dumps_indent(Head(members).v, d)
       \o (IF Len(members) > 1 THEN <<",">> ELSE <<>>)
       \o PrettyItems(Tail(members), keyed, d)

json_dumps_indent(v, d) ==
  CASE v.t \in {"str", "num", "null", "bool"} -> json_dumps(v)
    [] v.t = "obj" ->
         IF v.kv = <<>> THEN <<"{}">>
         ELSE <<"{">> \o PrettyItems(v.kv, TRUE, d + 1) \o <<"\n">> \o Indent(d) \o <<"}">>
    [] OTHER ->
         IF v.kv = <<>> THEN <<"[]">>
         ELSE <<"[">> \o PrettyItems(v.kv, FALSE, d + 1) \o <<"\n">> \o Indent(d) \o <<"]">>

\* str(v) of a decoded JSON value: a str is itself, None prints "None", a
\* number its digits, a dict or list its repr.
RECURSIVE PyRepr(_)
RECURSIVE ReprItems(_, _)
ReprItems(members, keyed) ==
  IF members = <<>> THEN <<>>
  ELSE (IF keyed THEN <<"'">> \o Atom(Head(members).k) \o <<"': ">> ELSE <<>>)
       \o PyRepr(Head(members).v)
       \o (IF Len(members) > 1 THEN <<", ">> ELSE <<>>)
       \o ReprItems(Tail(members), keyed)

PyRepr(v) ==
  CASE v.t = "str" -> <<"'">> \o v.s \o <<"'">>
    [] v.t = "num" -> v.s
    [] v.t = "null" -> <<"None">>
    [] v.t = "bool" -> IF v.s = <<"true">> THEN <<"True">> ELSE <<"False">>
    [] v.t = "obj" -> <<"{">> \o ReprItems(v.kv, TRUE) \o <<"}">>
    [] OTHER -> <<"[">> \o ReprItems(v.kv, FALSE) \o <<"]">>

PyStr(v) == IF v.t = "str" THEN v.s ELSE PyRepr(v)


\* sep.join(texts)
RECURSIVE Join(_, _)
Join(texts, sep) ==
  IF texts = <<>> THEN <<>>
  ELSE IF Len(texts) = 1 THEN Head(texts)
  ELSE Head(texts) \o sep \o Join(Tail(texts), sep)

\* ------------------------------------------------ _extract_text_from_parsed
\* An Optional[str]: None, or a string.
NoText == [none |-> TRUE, s |-> <<>>]
Text(txt) == [none |-> FALSE, s |-> txt]

\* The pieces one element of "choices" appends (none or one).
ChoicePieces(c) ==
  IF ~IsDict(c) THEN <<>>
  ELSE IF Has(c, "delta") /\ IsDict(Get(c, "delta")) /\ Has(Get(c, "delta"), "content")
  THEN <<PyStr(Get(Get(c, "delta"), "content"))>>
  ELSE IF Has(c, "message") /\ IsDict(Get(c, "message"))
  THEN LET m == Get(c, "message")
       IN IF ~Has(m, "content") THEN <<>>
          ELSE IF IsStr(Get(m, "content")) THEN <<Get(m, "content").s>>
          ELSE IF IsDict(Get(m, "content")) /\ Has(Get(m, "content"), "text")
          THEN <<PyStr(Get(Get(m, "content"), "text"))>>
          ELSE <<>>
  ELSE IF Has(c, "text") THEN <<PyStr(Get(c, "text"))>>
  ELSE <<>>

RECURSIVE Pieces(_)
Pieces(choices) ==
  IF choices = <<>> THEN <<>>
  ELSE ChoicePieces(Head(choices).v) \o Pieces(Tail(choices))

\* The keys tried first, in this order.
TextKeys == <<"content", "text", "message", "raw">>

StringKeyHits(obj) ==
  SelectSeq(TextKeys, LAMBDA key : Has(obj, key) /\ IsStr(Get(obj, key)))

\* The str values a dict holds, in its own order.
StringVals(obj) ==
  LET strs == SelectSeq(obj.kv, LAMBDA m : IsStr(m.v))
  IN [i \in 1..Len(strs) |-> strs[i].v.s]

FirstThree(seq) == SubSeq(seq, 1, IF Len(seq) < 3 THEN Len(seq) ELSE 3)

extract_text_from_parsed(obj) ==
  IF obj.t = "null" THEN NoText
  ELSE IF IsStr(obj) THEN Text(obj.s)
  ELSE IF ~IsDict(obj) THEN NoText
  ELSE IF StringKeyHits(obj) # <<>> THEN Text(Get(obj, Head(StringKeyHits(obj))).s)
  ELSE IF Has(obj, "choices") /\ IsList(Get(obj, "choices"))
          /\ Pieces(Get(obj, "choices").kv) # <<>>
  THEN Text(Flatten(Pieces(Get(obj, "choices").kv)))
  ELSE IF StringVals(obj) # <<>> THEN Text(Join(FirstThree(StringVals(obj)), <<" ">>))
  ELSE NoText

\* ------------------------------------------------------- the stream loop
Sentinels == {<<Pn("["), Word("DONE"), Pn("]")>>, <<Word("DONE")>>}

\* line = raw_line.strip(); the "data:" prefix, when there, is cut and the
\* rest stripped again.
CleanLine(raw_line) ==
  LET line == Strip(raw_line)
  IN IF line # <<>> /\ Head(line) = Word("data:") THEN Strip(Tail(line)) ELSE line

\* Whether the loop body goes on to parse the line (no `continue`).
IsContent(raw_line) == Strip(raw_line) # <<>> /\ CleanLine(raw_line) \notin Sentinels

\* parsed = json.loads(line), or {"raw": line} when that raises.
ParseLine(line) ==
  IF json_loads(line).ok THEN json_loads(line).v
  ELSE JObj(<<Member("raw", JStr(TextOf(line)))>>)

\* What is appended to aggregated_parts for a parsed line.
EntryOf(parsed) ==
  LET human == extract_text_from_parsed(parsed)
  IN IF ~human.none /\ human.s # <<>> THEN JStr(human.s)
     ELSE IF IsDict(parsed) /\ Has(parsed, "raw") THEN Get(parsed, "raw")
     ELSE JStr(json_dumps(parsed))

\* A faulty variant of StreamData: the event carries the extracted text, not the parsed value.
StreamDataExtracted(parsed) == EntryOf(parsed)

\* The payload of the stream event of a parsed line.
StreamData(parsed) == parsed

\* A faulty variant of ChunkLines: an unterminated last line of the previous chunk is
\* kept and joined to the start of this chunk.
ChunkLinesBuffered(chunks, k) ==
  LET prev == IF k > 1 THEN Decode(chunks[k - 1]) ELSE <<>>
      carry == IF prev # <<>> /\ prev[Len(prev)].k # "nl"
               THEN SplitLines(prev)[Len(SplitLines(prev))] ELSE <<>>
  IN IF chunks[k] = <<>> THEN <<>> ELSE SplitLines(carry \o Decode(chunks[k]))

\* The raw lines of chunk number k of the body, as the loop sees them.
ChunkLines(chunks, k) ==
  IF chunks[k] = <<>> THEN <<>> ELSE SplitLines(Decode(chunks[k]))

\* " ".join(p for p in aggregated_parts if p): a kept part that is no str
\* makes join raise TypeError.
KeptParts(parts) == SelectSeq(parts, Truthy)
JoinRaises(parts) == \E i \in 1..Len(KeptParts(parts)) : ~IsStr(KeptParts(parts)[i])
FinalText(parts) ==
  LET kept == KeptParts(parts)
  IN Join([i \in 1..Len(kept) |-> kept[i].s], <<" ">>)

\* ------------------------------------------------------------ the settings
\* Tools.Valves: each field with its default.
ValvesDefaults ==
  [jina_api_key |-> "", timeout_seconds |-> 600, reasoning_effort |-> "low",
   budget_tokens |-> 500000, max_returned_urls |-> 50, no_direct_answer |-> TRUE,
   team_size |-> 4, stream_by_default |-> TRUE]

\* An optional value is a set with at most one element.
None == {}
Some(x) == {x}
OrElse(opt, default) == IF opt = None THEN default ELSE CHOOSE x \in opt : TRUE

\* Valves(**cfg): a field the configuration leaves out takes its default.
Valves(cfg) ==
  [ValvesDefaults EXCEPT
     !.jina_api_key = OrElse(cfg.jina_api_key, @),
     !.budget_tokens = OrElse(cfg.budget_tokens, @),
     !.stream_by_default = OrElse(cfg.stream_by_default, @)]

NoConfig == [jina_api_key |-> None, budget_tokens |-> None, stream_by_default |-> None]

Configs ==
  [jina_api_key : {None, Some("key")}, budget_tokens : {None, Some(1000)},
   stream_by_default : {None, Some(FALSE)}]

\* ----------------------------------------------------- the request builder
\* A faulty variant of ResolveStream: the caller's override is ignored.
ResolveStreamDefaultOnly(stream_arg, v) == v.stream_by_default

\* stream if (stream is not None) else bool(self.valves.stream_by_default)
ResolveStream(stream_arg, v) ==
  IF stream_arg # None THEN OrElse(stream_arg, FALSE) ELSE v.stream_by_default

SystemPrompt == <<"You are a research assistant conducting deep searches. ...">>

Messages(query) ==
  JArr(<<Member("", JObj(<<Member("role", JStr(<<"system">>)),
                           Member("content", JStr(SystemPrompt))>>)),
         Member("", JObj(<<Member("role", JStr(<<"user">>)),
                           Member("content", JStr(<<"Research request: ">> \o query))>>))>>)

BudgetMembers(v) == <<Member("budget_tokens", JNum(Dec(v.budget_tokens)))>>

BuildPayload(v, query, streaming) ==
  JObj(<<Member("model", JStr(<<"jina-deepsearch-v1">>)),
         Member("messages", Messages(query)),
         Member("stream", JBool(streaming)),
         Member("reasoning_effort", JStr(Atom(v.reasoning_effort)))>>
       \o BudgetMembers(v)
       \o <<Member("max_returned_urls", JStr(Dec(v.max_returned_urls))),
            Member("no_direct_answer", JBool(v.no_direct_answer)),
            Member("team_size", JNum(Dec(v.team_size)))>>)

\* ------------------------------------------------------------- exceptions
Exc(cls, msg) == [cls |-> cls, msg |-> msg]

\* The classes an exception of class cls is an instance of.
Bases(cls) ==
  CASE cls = "ServerTimeoutError" -> {"ServerTimeoutError", "TimeoutError", "Exception"}
    [] cls = "TimeoutError" -> {"TimeoutError", "Exception"}
    [] OTHER -> {cls, "Exception"}

IsInstance(e, cls) == cls \in Bases(e.cls)

\* A faulty variant of ExceptClause: the generic clause comes first.
ExceptClauseGenericFirst(e) ==
  IF IsInstance(e, "Exception") THEN "generic"
  ELSE IF IsInstance(e, "TimeoutError") THEN "timeout"
  ELSE "propagate"

\* The except clause of deepsearch that catches e: the clauses in their order.
ExceptClause(e) ==
  IF IsInstance(e, "TimeoutError") THEN "timeout"
  ELSE IF IsInstance(e, "Exception") THEN "generic"
  ELSE "propagate"

SinkFailure == Exc("RuntimeError", <<"sink failed">>)

\* ------------------------------------------------------------ sink events
StatusEvent(description, done, ok) ==
  [type |-> "status", description |-> description, done |-> done, data |-> JNull,
   ok |-> ok]

StreamEvent(parsed, ok) ==
  [type |-> "stream", description |-> <<>>, done |-> FALSE, data |-> StreamData(parsed),
   ok |-> ok]

\* --------------------------------------------------------- returned strings
KeyMissingMsg == <<"Error: Jina DeepSearch API key missing. Set it in tool settings.">>
TimeoutMsg == <<"Error: request to DeepSearch timed out.">>
NoContentMsg == <<"DeepSearch returned no readable content.">>
\* A faulty variant of ApiErrorMsg: the body is left out.
ApiErrorMsgNoBody(status, err_text) == <<"API Error ">> \o Dec(status)

ApiErrorMsg(status, err_text) == <<"API Error ">> \o Dec(status) \o <<": ">> \o err_text
UnexpectedMsg(e) == <<"Unexpected error during DeepSearch: ">> \o e.msg

\* A faulty variant of OrText: no fallback for an empty string.
OrTextFirst(x, y) == x

\* x or y, on strings.
OrText(x, y) == IF x # <<>> THEN x ELSE y

\* ------------------------------------------------------------ the responses
Doc_text == <<Pn("{"), Str("text"), Pn(":"), Str("hi"), Pn("}")>>
Doc_raw_empty == <<Pn("{"), Str("raw"), Pn(":"), Str(""), Pn("}")>>
Doc_raw_num == <<Pn("{"), Str("raw"), Pn(":"), Num("5"), Pn("}")>>
Doc_choices ==
  <<Pn("{"), Str("choices"), Pn(":"), Pn("["),
    Pn("{"), Str("delta"), Pn(":"), Pn("{"), Str("content"), Pn(":"), Str("Hel"), Pn("}"), Pn("}"),
    Pn(","),
    Pn("{"), Str("message"), Pn(":"), Pn("{"), Str("content"), Pn(":"),
       Pn("{"), Str("text"), Pn(":"), Str("lo"), Pn("}"), Pn("}"), Pn("}"),
    Pn("]"), Pn("}")>>
Doc_choices_null ==
  <<Pn("{"), Str("choices"), Pn(":"), Pn("["),
    Pn("{"), Str("delta"), Pn(":"), Pn("{"), Str("content"), Pn(":"), Lit("null"), Pn("}"), Pn("}"),
    Pn("]"), Pn("}")>>

ChunkPool ==
  { <<>>,
    <<Word("data:"), Ws>> \o SubSeq(Doc_text, 1, 3),
    SubSeq(Doc_text, 4, 5) \o <<NL>>,
    <<Ws, Word("data:"), Ws>> \o Doc_text \o <<Ws, NL, NL, Word("data:"), Ws,
        Pn("["), Word("DONE"), Pn("]"), NL, Word("plain"), Ws, Word("text"), NL>>,
    <<Ws, Bad, NL, Word("DONE"), NL>> \o Doc_raw_empty,
    Doc_choices,
    Doc_choices_null \o <<NL>>,
    Doc_raw_num }

Bodies == UNION {[1..n -> ChunkPool] : n \in 0..MaxChunks}
Statuses == {200, 204, 404, 503}

\* The responses: any body with status 200, a body of at most one chunk with
\* the other statuses.
Responses ==
  {r \in [status : Statuses, chunks : Bodies] : r.status = 200 \/ Len(r.chunks) <= 1}
Queries == {<<"q">>}

\* resp.text() / the bytes resp.json() parses: the whole body, decoded strictly
\* (an undecodable byte raises UnicodeDecodeError).
BodyToks(chunks) == Flatten(chunks)
BodyDecodes(chunks) == \A i \in 1..Len(BodyToks(chunks)) : BodyToks(chunks)[i].k # "bad"

\* ---------------------------------------------------------------- the state
VARIABLES
  config,            \* what the host configured (fields may be left out)
  valves,            \* Tools.valves
  pc,                \* where deepsearch is: idle, post, read_err, read_json, stream,
                     \* done (it returned) or raised (it raised to its caller)
  stream,            \* the stream argument (None, or a bool)
  emitter,           \* whether __event_emitter__ was given
  use_stream,
  payload,           \* the request body (null before it is built)
  resp,              \* the response: its status and the chunks of its body
  ci,                \* the chunks iter_chunked has yielded so far
  pending,           \* the raw lines of the current chunk still to process
  aggregated_parts,
  events,            \* the events handed to the sink, in order (ok: delivered)
  extracted,         \* the non-streaming path's extracted text
  result,            \* the returned string
  raised,            \* the class of the exception the try block raised ("" if none)
  raised_at          \* the pc at which it was raised

vars ==
  <<config, valves, pc, stream, emitter, use_stream, payload, resp, ci, pending,
    aggregated_parts, events, extracted, result, raised, raised_at>>

settingsVars == <<config, valves>>
callVars == <<stream, emitter, use_stream, payload>>
loopVars == <<ci, pending, aggregated_parts>>

Init ==
  /\ config = NoConfig
  /\ valves = ValvesDefaults
  /\ pc = "idle"
  /\ stream = None
  /\ emitter = FALSE
  /\ use_stream = FALSE
  /\ payload = JNull
  /\ resp = [status |-> 0, chunks |-> <<>>]
  /\ ci = 0
  /\ pending = <<>>
  /\ aggregated_parts = <<>>
  /\ events = <<>>
  /\ extracted = NoText
  /\ result = <<>>
  /\ raised = ""
  /\ raised_at = ""

\* The top-level handlers: the except clause that catches e, its terminal
\* status event (whose own failure is swallowed) and the returned string.  An
\* exception no clause catches leaves deepsearch raising to its caller.
Handle(e, em, evs, okh) ==
  CASE ExceptClause(e) = "timeout" ->
         [pc |-> "done", result |-> TimeoutMsg, events |-> evs]
    [] ExceptClause(e) = "generic" ->
         [pc |-> "done", result |-> UnexpectedMsg(e),
          events |-> IF em
                     THEN Append(evs, StatusEvent(<<"Unexpected error: ">> \o e.msg, TRUE, okh))
                     ELSE evs]
    [] OTHER -> [pc |-> "raised", result |-> <<>>, events |-> evs]

Return(res, evs) ==
  /\ pc' = "done"
  /\ result' = res
  /\ events' = evs
  /\ UNCHANGED <<raised, raised_at>>

Raise(e, em, evs) ==
  \E okh \in BOOLEAN :
    /\ pc' = Handle(e, em, evs, okh).pc
    /\ result' = Handle(e, em, evs, okh).result
    /\ events' = Handle(e, em, evs, okh).events
    /\ raised' = e.cls
    /\ raised_at' = pc

\* await __event_emitter__(ev), then `rest` when the sink took it; a raising
\* sink raises inside the try block.
Emitted(ev, ok) == Append(events, [ev EXCEPT !.ok = ok])

\* The host sets the valves from its configuration.
Configure(cfg) ==
  /\ pc = "idle"
  /\ config' = cfg
  /\ valves' = Valves(cfg)
  /\ UNCHANGED <<pc, callVars, resp, loopVars, events, extracted, result, raised, raised_at>>

\* deepsearch(query, stream, __event_emitter__) up to session.post.
Invoke(query, stream_arg, em) ==
  /\ pc = "idle"
  /\ stream' = stream_arg
  /\ emitter' = em
  /\ UNCHANGED <<settingsVars, resp, loopVars, extracted>>
  /\ IF valves.jina_api_key = ""
     THEN /\ Return(KeyMissingMsg, events)
          /\ UNCHANGED <<use_stream, payload>>
     ELSE /\ use_stream' = ResolveStream(stream_arg, valves)
          /\ payload' = BuildPayload(valves, query, ResolveStream(stream_arg, valves))
          /\ IF em
             THEN \E ok \in BOOLEAN :
                    LET evs == Emitted(StatusEvent(<<"DeepSearching...">>, FALSE, TRUE), ok)
                    IN IF ok
                       THEN /\ pc' = "post"
                            /\ events' = evs
                            /\ UNCHANGED <<result, raised, raised_at>>
                       ELSE Raise(SinkFailure, em, evs)
             ELSE /\ pc' = "post"
                  /\ UNCHANGED <<events, result, raised, raised_at>>

\* if resp.status != 200
IsErrorStatus(status) == status # 200

\* session.post(...) answers: the status line and headers are in.
Respond(status, chunks) ==
  /\ pc = "post"
  /\ resp' = [status |-> status, chunks |-> chunks]
  /\ pc' = IF IsErrorStatus(status) THEN "read_err" ELSE IF ~use_stream THEN "read_json" ELSE "stream"
  /\ UNCHANGED <<settingsVars, callVars, loopVars, events, extracted, result, raised, raised_at>>

\* The non-200 branch: err_text = await resp.text(), the status event, the return.
ReadErrorText ==
  /\ pc = "read_err"
  /\ UNCHANGED <<settingsVars, callVars, resp, loopVars, extracted>>
  /\ IF ~BodyDecodes(resp.chunks)
     THEN Raise(Exc("UnicodeDecodeError", <<"invalid start byte">>), emitter, events)
     ELSE LET res == ApiErrorMsg(resp.status, TextOf(BodyToks(resp.chunks)))
              ev == StatusEvent(<<"DeepSearch API error ">> \o Dec(resp.status), TRUE, TRUE)
          IN IF emitter
             THEN \E ok \in BOOLEAN :
                    IF ok THEN Return(res, Emitted(ev, ok))
                    ELSE Raise(SinkFailure, emitter, Emitted(ev, ok))
             ELSE Return(res, events)

\* The non-streaming branch: body = await resp.json(), the status event, the
\* extraction, the return.
ReadJson ==
  /\ pc = "read_json"
  /\ UNCHANGED <<settingsVars, callVars, resp, loopVars>>
  /\ IF ~BodyDecodes(resp.chunks)
     THEN /\ Raise(Exc("UnicodeDecodeError", <<"invalid start byte">>), emitter, events)
          /\ UNCHANGED extracted
     ELSE IF ~json_loads(BodyToks(resp.chunks)).ok
     THEN /\ Raise(Exc("JSONDecodeError", <<"Expecting value">>), emitter, events)
          /\ UNCHANGED extracted
     ELSE LET body == json_loads(BodyToks(resp.chunks)).v
              pretty == json_dumps_indent(body, 0)
              ex == extract_text_from_parsed(body)
              ev == StatusEvent(<<"Received DeepSearch response.">>, TRUE, TRUE)
          IN IF emitter
             THEN \E ok \in BOOLEAN :
                    IF ok
                    THEN /\ Return(OrText(ex.s, pretty), Emitted(ev, ok))
                         /\ extracted' = ex
                    ELSE /\ Raise(SinkFailure, emitter, Emitted(ev, ok))
                         /\ UNCHANGED extracted
             ELSE /\ Return(OrText(ex.s, pretty), events)
                  /\ extracted' = ex

\* iter_chunked yields the next chunk: it is decoded and split into lines.
RecvChunk ==
  /\ pc = "stream"
  /\ pending = <<>>
  /\ ci < Len(resp.chunks)
  /\ ci' = ci + 1
  /\ pending' = ChunkLines(resp.chunks, ci + 1)
  /\ UNCHANGED <<settingsVars, callVars, resp, aggregated_parts, events, extracted,
                 pc, result, raised, raised_at>>

\* One turn of `for raw_line in text_chunk.splitlines()`.
ProcessLine ==
  /\ pc = "stream"
  /\ pending # <<>>
  /\ pending' = Tail(pending)
  /\ UNCHANGED <<settingsVars, callVars, resp, ci, extracted>>
  /\ IF ~IsContent(Head(pending))
     THEN UNCHANGED <<aggregated_parts, events, pc, result, raised, raised_at>>
     ELSE LET parsed == ParseLine(CleanLine(Head(pending)))
          IN /\ aggregated_parts' = Append(aggregated_parts, EntryOf(parsed))
             /\ IF emitter
                THEN \E ok \in BOOLEAN :
                       IF ok
                       THEN /\ events' = Emitted(StreamEvent(parsed, TRUE), ok)
                            /\ UNCHANGED <<pc, result, raised, raised_at>>
                       ELSE Raise(SinkFailure, emitter, Emitted(StreamEvent(parsed, TRUE), ok))
                ELSE UNCHANGED <<events, pc, result, raised, raised_at>>

\* The body has ended: the join, the status event, the return.
StreamEnd ==
  /\ pc = "stream"
  /\ pending = <<>>
  /\ ci = Len(resp.chunks)
  /\ UNCHANGED <<settingsVars, callVars, resp, loopVars, extracted>>
  /\ IF JoinRaises(aggregated_parts)
     THEN Raise(Exc("TypeError", <<"sequence item 0: expected str instance">>), emitter, events)
     ELSE LET res == OrText(FinalText(aggregated_parts), NoContentMsg)
              ev == StatusEvent(<<"DeepSearch complete.">>, TRUE, TRUE)
          IN IF emitter
             THEN \E ok \in BOOLEAN :
                    IF ok THEN Return(res, Emitted(ev, ok))
                    ELSE Raise(SinkFailure, emitter, Emitted(ev, ok))
             ELSE Return(res, events)

\* Where deepsearch waits on the network.
Waiting == pc \in {"post", "read_err", "read_json"} \/ (pc = "stream" /\ pending = <<>>)

\* The total timeout expires while deepsearch waits.
TimeoutExpires ==
  /\ Waiting
  /\ Raise(Exc(IF pc = "post" THEN "ServerTimeoutError" ELSE "TimeoutError", <<>>),
           emitter, events)
  /\ UNCHANGED <<settingsVars, callVars, resp, loopVars, extracted>>

\* The connection fails while deepsearch waits.
TransportError ==
  /\ Waiting
  /\ Raise(Exc("ClientError", <<"connection lost">>), emitter, events)
  /\ UNCHANGED <<settingsVars, callVars, resp, loopVars, extracted>>

Next ==
  \/ \E cfg \in Configs : Configure(cfg)
  \/ \E q \in Queries, s \in {None, Some(TRUE), Some(FALSE)}, em \in BOOLEAN : Invoke(q, s, em)
  \/ \E r \in Responses : Respond(r.status, r.chunks)
  \/ ReadErrorText
  \/ ReadJson
  \/ RecvChunk
  \/ ProcessLine
  \/ StreamEnd
  \/ TimeoutExpires
  \/ TransportError

Spec == Init /\ [][Next]_vars

\* ======================================================== the claims' terms
StatusDoneCount(evs) == Len(SelectSeq(evs, LAMBDA ev : ev.type = "status" /\ ev.done))
StreamEvents(evs) == SelectSeq(evs, LAMBDA ev : ev.type = "stream")
StreamPayloads(evs) == [i \in 1..Len(StreamEvents(evs)) |-> StreamEvents(evs)[i].data]

\* deepsearch returned without any exception raised inside its try block.
ReturnedNormally == pc = "done" /\ raised = ""

\* The raw lines of the chunks received so far that the loop has gone through:
\* every line of the chunks before the current one, and the lines of the
\* current chunk that are no longer pending, each chunk split on its own.
LinesAlone(chunk) == SplitLines(Decode(chunk))

RECURSIVE LinesOfChunks(_)
LinesOfChunks(chunks) ==
  IF chunks = <<>> THEN <<>> ELSE LinesAlone(Head(chunks)) \o LinesOfChunks(Tail(chunks))

PendingIsOwnSuffix ==
  ci = 0 \/ LET own == LinesAlone(resp.chunks[ci])
            IN /\ Len(pending) <= Len(own)
               /\ pending = SubSeq(own, Len(own) - Len(pending) + 1, Len(own))

ConsumedLines ==
  IF ci = 0 THEN <<>>
  ELSE LET own == LinesAlone(resp.chunks[ci])
       IN LinesOfChunks(SubSeq(resp.chunks, 1, ci - 1))
          \o SubSeq(own, 1, Len(own) - Len(pending))

InStreamingCall == pc \in {"stream", "done"} /\ resp.status = 200 /\ use_stream

ContentLines(lines) == SelectSeq(lines, IsContent)
EntriesOf(lines) ==
  [i \in 1..Len(ContentLines(lines)) |-> EntryOf(ParseLine(CleanLine(ContentLines(lines)[i])))]
ParsedOf(lines) ==
  [i \in 1..Len(ContentLines(lines)) |-> ParseLine(CleanLine(ContentLines(lines)[i]))]

\* What a streaming call over the whole body returns when nothing interrupts it.
UninterruptedResult(chunks) ==
  IF JoinRaises(EntriesOf(LinesOfChunks(chunks)))
  THEN UnexpectedMsg(Exc("TypeError", <<"sequence item 0: expected str instance">>))
  ELSE OrText(FinalText(EntriesOf(LinesOfChunks(chunks))), NoContentMsg)

StreamDeliveryFailed == \E i \in 1..Len(events) : events[i].type = "stream" /\ ~events[i].ok

\* C1 (as claimed): once deepsearch has returned from a streaming call in
\* which the sink raised on a stream event, the returned string is one the
\* call could have returned had that delivery succeeded: the transcript of the
\* whole body (or what its join yields), or the report of a later timeout or
\* transport failure.  The code lets the sink's exception reach the top-level
\* handler instead, so this is violated.
C1_StreamSinkFailureSwallowed ==
  (pc = "done" /\ StreamDeliveryFailed) =>
     result \in {UninterruptedResult(resp.chunks), TimeoutMsg,
                 UnexpectedMsg(Exc("ClientError", <<"connection lost">>))}

\* C2 (as claimed): the request body holds the key budget_tokens if and only
\* if a token budget was configured, and then with the configured value.  The
\* code always sends the key (the field's default when none was configured),
\* so this is violated.
C2_BudgetKeyIffConfigured ==
  payload # JNull =>
     /\ Has(payload, "budget_tokens") <=> (config.budget_tokens # None)
     /\ config.budget_tokens # None =>
          Get(payload, "budget_tokens") = JNum(Dec(OrElse(config.budget_tokens, 0)))

\* C3: when deepsearch returns without an exception from a response whose
\* status is not 2xx, whatever the streaming flag, the returned string is
\* "API Error <status>: <body>" with the body verbatim; with a sink exactly one
\* status event with done=true was emitted, without a sink none; no stream
\* event was emitted and nothing of the body was parsed or aggregated.
Is2xx(status) == status >= 200 /\ status <= 299

C3_NonOkStatus ==
  (ReturnedNormally /\ resp.status # 0 /\ ~Is2xx(resp.status)) =>
     /\ result = <<"API Error ">> \o Dec(resp.status) \o <<": ">> \o TextOf(Flatten(resp.chunks))
     /\ StatusDoneCount(events) = (IF emitter THEN 1 ELSE 0)
     /\ emitter => events[Len(events)].type = "status" /\ events[Len(events)].done
     /\ StreamEvents(events) = <<>>
     /\ aggregated_parts = <<>>
     /\ extracted = NoText

C3_Witness ==
  /\ ReturnedNormally /\ resp.status = 503 /\ emitter /\ resp.chunks # <<>>
  /\ use_stream /\ StatusDoneCount(events) = 1

\* C4 (as claimed): when deepsearch has returned after an exception raised
\* once stream processing had begun, and a sink was given, a status event with
\* done=true was handed to the sink.  The timeout clause returns without
\* emitting, so this is violated.
C4_AbortEmitsTerminalStatus ==
  (pc = "done" /\ raised # "" /\ raised_at = "stream" /\ emitter) =>
     StatusDoneCount(events) >= 1

\* C5: when the total timeout expired at any stage (while connecting or
\* waiting for the response, while reading a body, while waiting for a chunk
\* with lines already aggregated), deepsearch returns the fixed timeout
\* message, and so neither the transcript so far, nor the empty-result
\* sentinel, nor an unexpected-error string.
TimedOut == raised \in {"TimeoutError", "ServerTimeoutError"}

C5_TimeoutMessage ==
  TimedOut =>
     /\ pc = "done"
     /\ result = <<"Error: request to DeepSearch timed out.">>
     /\ result # NoContentMsg
     /\ Head(result) # "Unexpected error during DeepSearch: "
     /\ aggregated_parts # <<>> => result # FinalText(aggregated_parts)

C5_Witness ==
  /\ pc = "done" /\ raised = "TimeoutError" /\ raised_at = "stream"
  /\ aggregated_parts # <<>> /\ Truthy(aggregated_parts[1])

\* C6: in a streaming call the stream events handed to the sink are, in order,
\* the parsed events of the lines gone through so far that are neither blank
\* nor a stream-end sentinel: one appended entry and one stream event per such
\* line, the event carrying the decoded JSON value or {raw: line}; a line that
\* is [DONE] or DONE after trimming and cutting "data:" adds nothing.  Without a
\* sink there is no stream event.
C6_Payload(raw_line) ==
  LET l == Strip(raw_line)
  IN IF l # <<>> /\ Head(l) = Word("data:") THEN Strip(Tail(l)) ELSE l

C6_Counts(raw_line) ==
  /\ Strip(raw_line) # <<>>
  /\ C6_Payload(raw_line) # <<Pn("["), Word("DONE"), Pn("]")>>
  /\ C6_Payload(raw_line) # <<Word("DONE")>>

C6_ParsedEvent(raw_line) ==
  IF json_loads(C6_Payload(raw_line)).ok THEN json_loads(C6_Payload(raw_line)).v
  ELSE JObj(<<Member("raw", JStr(TextOf(C6_Payload(raw_line))))>>)

C6_OneEventPerContentLine ==
  InStreamingCall =>
     LET lines == SelectSeq(ConsumedLines, C6_Counts)
     IN /\ Len(aggregated_parts) = Len(lines)
        /\ emitter => StreamPayloads(events) = [i \in 1..Len(lines) |-> C6_ParsedEvent(lines[i])]
        /\ ~emitter => StreamEvents(events) = <<>>

C6_Witness ==
  /\ ReturnedNormally /\ InStreamingCall /\ emitter
  /\ Len(StreamEvents(events)) >= 2
  /\ Len(ConsumedLines) > Len(StreamEvents(events))
  /\ \E i \in 1..Len(events) : events[i].type = "stream" /\ Has(events[i].data, "raw")
  /\ \E i \in 1..Len(events) : events[i].type = "stream" /\ Has(events[i].data, "text")

\* C7: deepsearch never raises to its caller and never returns an empty
\* string; when a streaming call over a 200 response ends without an exception
\* and every aggregated entry is empty (or there is none), it returns the
\* sentinel "DeepSearch returned no readable content.", which no error path
\* returns.
C7_AllEntriesEmpty == \A i \in 1..Len(aggregated_parts) : ~Truthy(aggregated_parts[i])

C7_NeverEmptyNeverRaises ==
  /\ pc # "raised"
  /\ pc = "done" => result # <<>>
  /\ (ReturnedNormally /\ InStreamingCall /\ C7_AllEntriesEmpty) =>
        result = <<"DeepSearch returned no readable content.">>
  /\ (pc = "done" /\ result = <<"DeepSearch returned no readable content.">>) =>
        raised = "" /\ resp.status = 200

C7_Witness ==
  /\ ReturnedNormally /\ InStreamingCall /\ C7_AllEntriesEmpty
  /\ aggregated_parts # <<>> /\ Len(ConsumedLines) >= 3

\* C8 (as claimed): for a JSON object without a string-valued content, text,
\* message or raw key whose choices is a list, extraction yields the pieces of
\* the elements joined without separator, a piece being delta.content only if
\* it is a string, else message.content if a string, else message.content.text
\* if a string, else the element's text if a string; with no piece found the
\* extraction goes on to the object's own string values.  The code turns a
\* non-string delta.content into text ("None" for null), so this is violated.
C8_IsStrAt(o, key) == IsDict(o) /\ Has(o, key) /\ IsStr(Get(o, key))

C8_Piece(c) ==
  IF ~IsDict(c) THEN <<>>
  ELSE IF Has(c, "delta") /\ C8_IsStrAt(Get(c, "delta"), "content")
  THEN <<Get(Get(c, "delta"), "content").s>>
  ELSE IF Has(c, "message") /\ C8_IsStrAt(Get(c, "message"), "content")
  THEN <<Get(Get(c, "message"), "content").s>>
  ELSE IF Has(c, "message") /\ IsDict(Get(c, "message")) /\ Has(Get(c, "message"), "content")
          /\ C8_IsStrAt(Get(Get(c, "message"), "content"), "text")
  THEN <<Get(Get(Get(c, "message"), "content"), "text").s>>
  ELSE IF C8_IsStrAt(c, "text") THEN <<Get(c, "text").s>>
  ELSE <<>>

RECURSIVE C8_Pieces(_)
C8_Pieces(choices) ==
  IF choices = <<>> THEN <<>> ELSE C8_Piece(Head(choices).v) \o C8_Pieces(Tail(choices))

C8_Applies(obj) ==
  /\ IsDict(obj)
  /\ \A key \in {"content", "text", "message", "raw"} : ~C8_IsStrAt(obj, key)
  /\ Has(obj, "choices") /\ IsList(Get(obj, "choices"))

C8_ChoicesExtraction ==
  (ReturnedNormally /\ resp.status = 200 /\ ~use_stream
     /\ C8_Applies(json_loads(BodyToks(resp.chunks)).v)) =>
     LET body == json_loads(BodyToks(resp.chunks)).v
         pieces == C8_Pieces(Get(body, "choices").kv)
     IN IF pieces # <<>> THEN extracted = Text(Flatten(pieces))
        ELSE IF StringVals(body) # <<>>
        THEN extracted = Text(Join(FirstThree(StringVals(body)), <<" ">>))
        ELSE extracted = NoText

\* C9: when the resolved streaming flag (the override unless it is None, else
\* stream_by_default) is false and deepsearch returns without an exception from
\* a 200 response, the body was read as one JSON value and the returned string
\* is the extracted text when there is some, else the body pretty-printed; with
\* a sink exactly one status event with done=true was emitted, last, and no
\* stream event; nothing was aggregated.
C9_EffectiveStream == IF stream # None THEN stream = Some(TRUE) ELSE valves.stream_by_default

C10_NoLineStateBetweenChunks ==
  InStreamingCall =>
     /\ PendingIsOwnSuffix
     /\ aggregated_parts = EntriesOf(ConsumedLines)
     /\ emitter => StreamPayloads(events) = ParsedOf(ConsumedLines)

C10_Witness ==
  /\ ReturnedNormally /\ InStreamingCall /\ emitter /\ ci = 2
  /\ resp.chunks[1] # <<>> /\ resp.chunks[1][Len(resp.chunks[1])].k # "nl"
  /\ Len(aggregated_parts) = 2 /\ Len(StreamEvents(events)) = 2
  /\ \A i \in 1..2 : Has(StreamEvents(events)[i].data, "raw")
====
